---- MODULE Spec2Model ----
(***************************************************************************)
(* Model of app.py: the rate limiter, the retrying HTTP helper get_json,   *)
(* the JSON TTL cache, the two cached enrichment fetchers and the          *)
(* enrichment loop of main().                                              *)
(*                                                                         *)
(* Time is the value of time.time(), counted in ticks of 1/20 second so    *)
(* that the 1.05 s minimum interval and the whole-second sleeps are both   *)
(* integers.  Python's None is the empty set and a present value x is the  *)
(* singleton {x}; a dict is a function from its keys.                      *)
(***************************************************************************)
EXTENDS Integers, Sequences, FiniteSets, TLC

\* ------------------------------------------------------------------------
\* Bounds of the model
\* ------------------------------------------------------------------------
TicksPerSecond == 20

\* time.time() when a run begins, in ticks
StartTime == 1000

\* get_json calls made by the stand-alone fetcher harness
MaxCalls == 2
\* failed attempts the upstream may cause in a fetcher-harness run
FetchFaults == 6
\* failed attempts the upstream may cause in a pipeline run
PipeFaults == 5

None == {}
Some(x) == {x}

\* ------------------------------------------------------------------------
\* Rate limiting (app.py 41-51)
\* ------------------------------------------------------------------------
\* 1.05 seconds
MIN_SECONDS_PER_REQUEST == 21

\* a limiter that never sleeps
RateLimitSleepFor_nosleep(t, last) == 0

\* the argument of time.sleep in _rate_limit_sleep (0: no sleep)
RateLimitSleepFor(t, last) ==
    IF t - last < MIN_SECONDS_PER_REQUEST
    THEN MIN_SECONDS_PER_REQUEST - (t - last)
    ELSE 0

\* ------------------------------------------------------------------------
\* Upstream responses seen by session.get
\* ------------------------------------------------------------------------
\* status 0 stands for a transport failure: session.get raises a
\* RequestException and there is no response object
TransportFailure == 0
StatusCodes == {200, 401, 404, 429, 503}
\* Retry-After header values, in seconds, besides an absent header
RetryAfterSeconds == {5}
\* duration of one session.get, in ticks
Latencies == {0, 8}

\* What the upstream holds at one time: the body of a 200 answer of
\* /marketplace/stats/{id} and the community object of /releases/{id}
Catalogs ==
    { [stats |-> [num_for_sale |-> Some(3), blocked_from_sale |-> Some(FALSE), lowest_price |-> Some(7)],
       details |-> [want |-> Some(5), have |-> Some(2)]],
      [stats |-> [num_for_sale |-> Some(0), blocked_from_sale |-> Some(TRUE), lowest_price |-> None],
       details |-> [want |-> None, have |-> None]],
      [stats |-> [num_for_sale |-> None, blocked_from_sale |-> None, lowest_price |-> None],
       details |-> [want |-> Some(5), have |-> Some(2)]] }

\* The upstream of a behaviour is [statuses, latencies, sticky, served]:
\* the statuses it answers with, the durations of a session.get, whether a
\* failure lasts for all attempts of the call it hits, and its catalog.
\* The answers session.get may see at endpoint ep:
Responses(up, ep) ==
    { [status |-> TransportFailure, retry_after |-> None, body |-> None] :
              s \in up.statuses \cap {TransportFailure} }
    \cup { [status |-> s, retry_after |-> None, body |-> None] :
              s \in up.statuses \ {200, TransportFailure} }
    \cup { [status |-> 429, retry_after |-> Some(h), body |-> None] :
              h \in IF 429 \in up.statuses THEN RetryAfterSeconds ELSE {} }
    \cup { [status |-> 200, retry_after |-> None, body |-> Some(up.served[ep])] :
              s \in up.statuses \cap {200} }

\* ------------------------------------------------------------------------
\* get_json (app.py 123-154)
\* ------------------------------------------------------------------------
\* default of the retries parameter
Retries == 5

\* a loop that runs one iteration too many
LoopHasNext_offbyone(a, retries) == a <= retries

\* for attempt in range(1, retries + 1): is there an iteration after a
LoopHasNext(a, retries) == a < retries

\* int(r.headers.get("Retry-After", "60")), in ticks
RetryAfterWait_zero(hdr) == 0

RetryAfterWait(hdr) ==
    IF hdr = None THEN 60 * TicksPerSecond
    ELSE (CHOOSE h \in hdr : TRUE) * TicksPerSecond

\* time.sleep(1.0 * attempt), in ticks
Backoff(a) == a * TicksPerSecond

\* r.raise_for_status() raises HTTPError for 4xx and 5xx
RaiseForStatusRaises(s) == s >= 400 /\ s < 600

\* What one iteration of the loop does with a response:
\*   act = "sleep"  : time.sleep(sleep), then the next iteration
\*   act = "none"   : return None
\*   act = "json"   : return r.json()
\* HTTPError is a RequestException, so the except clause of line 150
\* catches what raise_for_status raises.
Classify(resp, a, allow) ==
    IF resp.status = TransportFailure
    THEN [act |-> "sleep", sleep |-> Backoff(a)]
    ELSE IF resp.status = 429
    THEN [act |-> "sleep", sleep |-> RetryAfterWait(resp.retry_after)]
    ELSE IF allow /\ resp.status = 404
    THEN [act |-> "none", sleep |-> 0]
    ELSE IF resp.status \in {500, 502, 503, 504}
    THEN [act |-> "sleep", sleep |-> Backoff(a)]
    ELSE IF RaiseForStatusRaises(resp.status)
    THEN [act |-> "sleep", sleep |-> Backoff(a)]
    ELSE [act |-> "json", sleep |-> 0]

\* call sites that never allow a 404
Allow404Of_never(ep) == FALSE

\* allow_404 at the call sites of the two enrichment endpoints
Allow404Of(ep) == ep = "stats"

\* ------------------------------------------------------------------------
\* JSON cache (app.py 57-113)
\* ------------------------------------------------------------------------
\* A JSON value that is not an object, where the code expects a dict
NotADict == [notdict |-> TRUE]
IsDict(x) == "notdict" \notin DOMAIN x
EmptyDict == << >>

\* d.get(key, default)
Get(d, key, default) == IF key \in DOMAIN d THEN d[key] ELSE default

\* d[key] = value
Put(d, key, value) ==
    [k \in DOMAIN d \cup {key} |-> IF k = key THEN value ELSE d[k]]

\* A fetched_at value is [k, t]:
\*   k = "iso"    the text _utc_now_iso writes for the instant t
\*   k = "isoZ"   an ISO-8601 text of the instant t that ends in Z
\*   k = "text"   a non-empty text that is no timestamp
\*   k = "number" a JSON number other than 0
\*   k = "null"   JSON null or the empty text
Stamp(k, t) == [k |-> k, t |-> t]
NoStamp == Stamp("null", 0)

\* _utc_now_iso() at time t
UtcNowIso(t) == Stamp("iso", t)

\* _parse_iso: the instant of an ISO text; 0.0 when fromisoformat, or the
\* call of replace on a value that is no text, raises
ParseIso(ts) == IF ts.k \in {"iso", "isoZ"} THEN ts.t ELSE 0

\* Python truth value of a fetched_at value
Truthy(ts) == ts.k # "null"

\* is_fresh raises AttributeError when entry or entry[field] has no get
IsFreshRaises(entry, field) ==
    \/ ~IsDict(entry)
    \/ ~IsDict(Get(entry, field, EmptyDict))

\* a cache that never trusts what it holds
IsFresh_never(entry, field, ttl_seconds, t) == FALSE

\* a comparison that lets the boundary age through
IsFresh_inclusive(entry, field, ttl_seconds, t) ==
    LET meta == Get(entry, field, EmptyDict)
        fetched_at == Get(meta, "fetched_at", NoStamp)
        age == t - ParseIso(fetched_at)
    IN  IF ~Truthy(fetched_at) THEN FALSE
        ELSE age >= 0 /\ age <= ttl_seconds * TicksPerSecond

\* is_fresh(entry, field, ttl_seconds) at time t, for arguments it does not
\* raise on
IsFresh(entry, field, ttl_seconds, t) ==
    LET meta == Get(entry, field, EmptyDict)
        fetched_at == Get(meta, "fetched_at", NoStamp)
        age == t - ParseIso(fetched_at)
    IN  IF ~Truthy(fetched_at) THEN FALSE
        ELSE age >= 0 /\ age < ttl_seconds * TicksPerSecond

\* max(0, int(args.marketplace_ttl)), line 416-417
ClampTTL(x) == IF x < 0 THEN 0 ELSE x

Fields == {"marketplace_stats", "release_details"}

\* the identifiers of the model and str(release_id)
Ids == {1, 2}
Str(id) == IF id = 1 THEN "1" ELSE "2"

\* The file at a path is [kind, doc]:
\*   kind = "missing"     no file
\*   kind = "unreadable"  a file that open() or read() fails on
\*   kind = "text"        a file that is not valid JSON
\*   kind = "partial"     the beginning of a JSON document, doc, whose
\*                        writing did not finish
\*   kind = "json"        a file holding the JSON document doc
NoFile == [kind |-> "missing", doc |-> EmptyDict]
BadFile == [kind |-> "text", doc |-> EmptyDict]
UnreadableFile == [kind |-> "unreadable", doc |-> EmptyDict]

\* A JSON document: an object is a function from its member names, null
\* is JNull, a number, a boolean or a text x is JsonOf(x), and a value that
\* is no object at a place where the code expects one is NotADict.
JNull == [null |-> TRUE]
JsonOf(x) == [v |-> x]

\* json.dump of a value that may be None, and json.load of what it wrote
JsonOfOption(opt) == IF opt = None THEN JNull ELSE JsonOf(CHOOSE x \in opt : TRUE)
OptionOfJson(j) == IF j = JNull THEN None ELSE Some(j.v)

\* The places of a cache root, by depth: 0 the root, 1 releases, 2 an
\* entry, 3 a fragment, 4 the data of a fragment.  The member k of a dict at
\* that depth is itself a dict, or one of the values of data, or a scalar.
IsDictPlace(depth, k) ==
    \/ depth = 0 /\ k = "releases"
    \/ depth \in {1, 2}
    \/ depth = 3 /\ k = "data"

\* json.dump(cache, f, ...): the document written for a Python value
RECURSIVE ToJson(_, _)
ToJson(value, depth) ==
    IF ~IsDict(value) THEN value
    ELSE [k \in DOMAIN value |->
            IF IsDictPlace(depth, k) THEN ToJson(value[k], depth + 1)
            ELSE IF depth = 4 THEN JsonOfOption(value[k])
            ELSE JsonOf(value[k])]

\* json.load(f): the Python value of a document
RECURSIVE FromJson(_, _)
FromJson(doc, depth) ==
    IF ~IsDict(doc) THEN doc
    ELSE [k \in DOMAIN doc |->
            IF IsDictPlace(depth, k) THEN FromJson(doc[k], depth + 1)
            ELSE IF depth = 4 THEN OptionOfJson(doc[k])
            ELSE doc[k].v]

\* the file left by a json.dump(value, f) that ran to its end
JsonDump(value) == [kind |-> "json", doc |-> ToJson(value, 0)]

\* the file while json.dump(value, f) is writing, from open(path, "w") on
PartialDump(value) == [kind |-> "partial", doc |-> ToJson(value, 0)]

FreshRoot(t) == [version |-> 1, updated_at |-> UtcNowIso(t), releases |-> EmptyDict]

\* an assignment where the code calls setdefault
SetDefault_overwrite(d, key, value) == Put(d, key, value)

\* d.setdefault(key, value)
SetDefault(d, key, value) == IF key \in DOMAIN d THEN d ELSE Put(d, key, value)

\* lines 77-86, the body of the try: [exc, root], exc the exception raised
\* ("none": the body returned root)
LoadCacheTry(file, t) ==
    IF file.kind \in {"missing", "unreadable"}
    THEN [exc |-> "OSError", root |-> EmptyDict]
    ELSE IF file.kind \in {"text", "partial"}
    THEN [exc |-> "JSONDecodeError", root |-> EmptyDict]
    ELSE LET data == FromJson(file.doc, 0) IN
         IF ~IsDict(data) THEN [exc |-> "ValueError", root |-> EmptyDict]
         ELSE LET d1 == SetDefault(data, "version", 1)
                  d2 == SetDefault(d1, "updated_at", UtcNowIso(t))
                  d3 == SetDefault(d2, "releases", EmptyDict)
              IN  [exc |-> "none",
                   root |-> IF IsDict(d3["releases"]) THEN d3
                            ELSE Put(d3, "releases", EmptyDict)]

\* a handler for the one error the author thought of
ExceptCatches_decode(exc) == exc = "JSONDecodeError"

\* line 87: except Exception
ExceptCatches(exc) == TRUE

\* load_cache(cache_path) at time t: [exc, root], exc the exception that
\* leaves load_cache ("none": it returned root)
LoadCacheOutcome(file, t) ==
    IF file.kind = "missing" THEN [exc |-> "none", root |-> FreshRoot(t)]
    ELSE LET r == LoadCacheTry(file, t) IN
         IF r.exc = "none" THEN r
         ELSE IF ExceptCatches(r.exc) THEN [exc |-> "none", root |-> FreshRoot(t)]
         ELSE r

\* what load_cache(cache_path) returns at time t
LoadCache(file, t) == LoadCacheOutcome(file, t).root

\* DEFAULT_CACHE_PATH, line 57: a path is the sequence of the parts of its name
CachePath == << "discogs_cache.json" >>

\* a save that writes over the cache file itself
TmpPath_same(cache_path) == cache_path

\* line 93: cache_path + ".tmp"
TmpPath(cache_path) == Append(cache_path, ".tmp")

\* the file open(path, "w") leaves before anything is written
TruncatedFile == [kind |-> "partial", doc |-> EmptyDict]

\* save_cache line 92: the root with its new updated_at
Stamped(root, t) == Put(root, "updated_at", UtcNowIso(t))

\* cache_get_release / cache_put_release
CacheGetRelease(c, id) == Get(c["releases"], Str(id), EmptyDict)
CachePutRelease(c, id, entry) ==
    Put(c, "releases", Put(c["releases"], Str(id), entry))

\* an entry made anew for the field that was fetched
EntryWith_alone(entry, field, fragment) == [f \in {field} |-> fragment]

\* entry[field] = fragment, lines 298 and 313
EntryWith(entry, field, fragment) == Put(entry, field, fragment)

\* a stamp that forgets the time of the fetch
Fragment_epoch(data, t) == [fetched_at |-> Stamp("iso", 0), data |-> data]

\* {"fetched_at": _utc_now_iso(), "data": data}, lines 298 and 313
Fragment(data, t) == [fetched_at |-> UtcNowIso(t), data |-> data]

\* lines 288-296 (and 468-476): the stats kept from what get_json returned
NormalizeStats(res) ==
    IF res = None
    THEN [num_for_sale |-> None, blocked_from_sale |-> None, lowest_price |-> None]
    ELSE LET data == CHOOSE b \in res : TRUE
         IN  [num_for_sale |-> data.num_for_sale,
              blocked_from_sale |-> data.blocked_from_sale,
              lowest_price |-> data.lowest_price]

\* lines 310-311 (and 479-480)
NormalizeDetails(res) ==
    LET comm == CHOOSE b \in res : TRUE
    IN  [want_count |-> comm.want, have_count |-> comm.have]

\* entry[field]["data"] raises KeyError
DataMissing(entry, field) == "data" \notin DOMAIN entry[field]

\* a list that drops the missing ids and keeps the repeats
RECURSIVE UniqueIds_repeats(_)
UniqueIds_repeats(seq) ==
    IF seq = << >> THEN << >>
    ELSE IF seq[1] = 0 THEN UniqueIds_repeats(Tail(seq))
    ELSE << seq[1] >> \o UniqueIds_repeats(Tail(seq))

\* dropna() and unique() of line 454: the ids in order of first occurrence
RECURSIVE UniqueIds(_)
UniqueIds(seq) ==
    IF seq = << >> THEN << >>
    ELSE LET front == UniqueIds(SubSeq(seq, 1, Len(seq) - 1))
             x == seq[Len(seq)]
         IN  IF x = 0 \/ (\E k \in 1..Len(front) : front[k] = x)
             THEN front ELSE Append(front, x)

\* ------------------------------------------------------------------------
\* Liquidity score (app.py 157-163, 321-339)
\* ------------------------------------------------------------------------
\* safe_num(x) of a count that is None or a number: None counts as 0.0
SafeNum(opt) == IF opt = None THEN 0 ELSE CHOOSE x \in opt : TRUE

\* round(ln(k) * 10^7) for k = 1..16
Ln7 ==
    << 0, 6931472, 10986123, 13862944, 16094379, 17917595, 19459101, 20794415,
       21972246, 23025851, 23978953, 24849066, 25649494, 26390573, 27080502,
       27725887 >>

\* A score is << whole, e4 >> and stands for whole + e4 / 10^4, with
\* 0 <= e4 < 10^4: the values round(score, 4) can take.
ScoreOfE4(x) == << x \div 10000, x % 10000 >>
ScoreLess(a, b) == a[1] < b[1] \/ (a[1] = b[1] /\ a[2] < b[2])

\* -1e9, line 323
BlockedSentinel == << -1000000000, 0 >>

\* liquidity_score(row).  The sum of lines 331-337 is computed in units of
\* 10^-8, log(demand_ratio) as ln(want + 1) - ln(have + 10); for counts in
\* 0..6 the result is the float the code rounds to.
LiquidityScore(row) ==
    IF Get(row, "blocked_from_sale", None) = Some(TRUE) THEN BlockedSentinel
    ELSE LET num_for_sale == SafeNum(Get(row, "num_for_sale", None))
             want == SafeNum(Get(row, "want_count", None))
             have == SafeNum(Get(row, "have_count", None))
             score == 22 * Ln7[want + 1] + 12 * Ln7[num_for_sale + 1]
                      + 30 * (Ln7[want + 1] - Ln7[have + 10])
                      - (IF num_for_sale = 0 THEN 200000000 ELSE 0)
         IN  ScoreOfE4((score + 5000) \div 10000)

\* lines 487-488: {"release_id": rid, **stats, **rel} with its score
MergedRecord(rid, st, rl) ==
    LET merged == [k \in {"release_id"} \cup DOMAIN st \cup DOMAIN rl |->
                      IF k \in DOMAIN rl THEN rl[k]
                      ELSE IF k \in DOMAIN st THEN st[k]
                      ELSE rid]
    IN  Put(merged, "liquidity_score", LiquidityScore(merged))

\* ------------------------------------------------------------------------
\* Ranked output (app.py 498-509)
\* ------------------------------------------------------------------------
\* A row of the frame out: row is the input row it comes from, release_id
\* is 0 for a missing id, and a cell is None where the frame holds NaN.
UnmatchedRow(k, id) ==
    [row |-> k, release_id |-> id, liquidity_score |-> None,
     want_count |-> None, have_count |-> None, num_for_sale |-> None,
     blocked_from_sale |-> None, lowest_price |-> None]
MatchedRow(k, m) ==
    [row |-> k, release_id |-> m["release_id"],
     liquidity_score |-> Some(m["liquidity_score"]),
     want_count |-> m["want_count"], have_count |-> m["have_count"],
     num_for_sale |-> m["num_for_sale"],
     blocked_from_sale |-> m["blocked_from_sale"],
     lowest_price |-> m["lowest_price"]]

\* the rows of market a row of base_df joins with
RECURSIVE JoinOne(_, _, _)
JoinOne(k, id, market) ==
    IF market = << >> THEN << >>
    ELSE (IF id # 0 /\ market[1]["release_id"] = id
          THEN << MatchedRow(k, market[1]) >> ELSE << >>)
         \o JoinOne(k, id, Tail(market))

\* base_df.merge(market, on="release_id", how="left"), line 499: the rows
\* of base_df in their order, each with the rows of market of its id, or
\* with NaN cells when there is none
RECURSIVE LeftMergeFrom(_, _, _)
LeftMergeFrom(k, base, market) ==
    IF k > Len(base) THEN << >>
    ELSE LET joined == JoinOne(k, base[k], market)
         IN  (IF joined = << >> THEN << UnmatchedRow(k, base[k]) >> ELSE joined)
             \o LeftMergeFrom(k + 1, base, market)
LeftMerge(base, market) == LeftMergeFrom(1, base, market)

\* sort_values on one column with ascending=False and the default
\* na_position="last": where cell x goes relative to cell y
\* The cells are scores; a count n is compared as the score << n, 0 >>.
DescendingCell(x, y) ==
    IF x = None /\ y = None THEN "tie"
    ELSE IF x = None THEN "after"
    ELSE IF y = None THEN "before"
    ELSE LET a == CHOOSE v \in x : TRUE
             b == CHOOSE v \in y : TRUE
         IN  IF ScoreLess(b, a) THEN "before"
             ELSE IF ScoreLess(a, b) THEN "after" ELSE "tie"

\* a cell that holds a count, as a cell that holds a score
CountCell(opt) == IF opt = None THEN None ELSE Some(<< CHOOSE n \in opt : TRUE, 0 >>)

\* a sort by the score alone
SortsBefore_scoreonly(r, q) ==
    DescendingCell(r.liquidity_score, q.liquidity_score) = "before"

\* lines 505-508: row r sorts before row q by
\* ["liquidity_score", "want_count", "num_for_sale"], all descending
SortsBefore(r, q) ==
    LET c1 == DescendingCell(r.liquidity_score, q.liquidity_score)
        c2 == DescendingCell(CountCell(r.want_count), CountCell(q.want_count))
        c3 == DescendingCell(CountCell(r.num_for_sale), CountCell(q.num_for_sale))
    IN  \/ c1 = "before"
        \/ c1 = "tie" /\ c2 = "before"
        \/ c1 = "tie" /\ c2 = "tie" /\ c3 = "before"

\* sort_values: the rows in sorted order, rows that tie on every key in the
\* order they had
RECURSIVE SortValues(_)
SortValues(frame) ==
    IF frame = << >> THEN << >>
    ELSE LET front == SortValues(SubSeq(frame, 1, Len(frame) - 1))
             x == frame[Len(frame)]
             n == Cardinality({ j \in 1..Len(front) : ~SortsBefore(x, front[j]) })
         IN  SubSeq(front, 1, n) \o << x >> \o SubSeq(front, n + 1, Len(front))

\* line 509: range(1, len(out) + 1)
SellOrderOf(position) == position

\* lines 499-509: the ranked frame
RankedOutput(base, market) ==
    LET sorted == SortValues(LeftMerge(base, market))
    IN  [k \in 1..Len(sorted) |-> Put(sorted[k], "Sell Order", SellOrderOf(k))]

\* a driver that persists whether or not the cache is enabled
SavesCache_always(nc) == TRUE

\* line 494: if not args.no_cache
SavesCache(nc) == ~nc

\* a driver that goes on to persist after a failed fetch
AfterRaise_persist == "save"

\* the failure of line 154 is not caught in main: the run ends
AfterRaise == "failed"

VARIABLES
    now,              \* time.time()
    last_request_ts,  \* _last_request_ts
    gpc,              \* position in get_json
    caller,           \* who called get_json
    endpoint,         \* which URL: "stats" or "details"
    allow_404,
    attempt,
    last_status,      \* 0 is None
    sleep_for,        \* pending argument of time.sleep
    result,           \* return value of get_json
    nGet,             \* session.get calls of the current get_json call
    nThrottle,        \* _rate_limit_sleep calls of the current call
    lastGetAt,        \* time of the latest session.get of the process, -1: none
    prevGetAt,        \* time of the one before, -1: none
    respAt,           \* time the latest answer of the current call arrived
    last429,          \* the latest answer of the current call was a 429
    lastHdr,          \* its Retry-After header
    gapBefore,        \* time from the previous answer to the latest session.get
    was429Before,     \* the answer before the latest session.get was a 429
    hdrBefore,        \* its Retry-After header
    all429,           \* every answer of the current call was a 429
    saw404,           \* some answer of the current call was a 404
    calls,            \* get_json calls started
    faultsLeft,       \* failed attempts the upstream may still cause
    upstream,         \* the upstream service of this behaviour
    probe,            \* arguments of a single is_fresh call
    probeOut,         \* what that call did: "unset", "True", "False", "raise"
    mpc,              \* position in main
    error,            \* the exception that ended main, "none" if none
    no_cache,         \* args.no_cache
    marketplace_ttl,  \* seconds, after line 416
    release_details_ttl,
    base_rows,        \* the release_id column of base_df, 0 is a missing id
    release_ids,      \* line 454
    i,                \* loop counter of line 461
    cache,            \* the cache root held by main
    disk,             \* the file at the cache path
    tmp,              \* the file at the cache path + ".tmp"
    stats,            \* locals of the loop body
    rel,
    hit_s,
    hit_r,
    cache_hits_stats,
    cache_hits_rel,
    rows,             \* merged records
    outWritten,       \* the output CSV was written by this run
    pass,             \* runs of the program so far
    saves,            \* replacements of the cache file by this run
    reads,            \* reads of the cache file by this run
    diskAtStart,      \* the cache file when this run began
    fetched,          \* <<id, endpoint>> of the get_json calls of this run
    callAt,           \* time the current enrichment call began
    callsAt,          \* get_json calls started before it
    entryAt,          \* the cache entry it found
    missLog,          \* per id and field: the latest miss stored in the root
    missSaved,        \* the same for the root on disk
    out,              \* the rows of the output CSV, in order
    rootAt,           \* the cache root when the current enrichment call began
    enrichLog,        \* the enrichment calls of this run, in order
    spc,              \* position of a run that only loads and saves the cache
    loaded,           \* what its load_cache returned
    saveEnd           \* how its save_cache ended

fetchVars == << now, last_request_ts, gpc, caller, endpoint, allow_404, attempt,
                last_status, sleep_for, result, nGet, nThrottle,
                lastGetAt, prevGetAt, respAt, last429, lastHdr, gapBefore,
                was429Before, hdrBefore, all429, saw404, calls, faultsLeft,
                upstream >>

probeVars == << probe, probeOut >>

pipeVars == << mpc, error, no_cache, marketplace_ttl, release_details_ttl,
               base_rows, release_ids, i, cache, disk, tmp, stats, rel, hit_s,
               hit_r, cache_hits_stats, cache_hits_rel, rows, outWritten, pass,
               saves, reads, diskAtStart, fetched, callAt, callsAt, entryAt,
               missLog, missSaved, out, rootAt, enrichLog >>

storeVars == << spc, loaded, saveEnd >>

vars == << fetchVars, probeVars, pipeVars, storeVars >>

\* the two files of the model: the one at the cache path and the one at
\* the temporary path
FileAt(path) == IF path = CachePath THEN disk ELSE tmp

\* the file at path becomes file
WriteFile(path, file) ==
    /\ disk' = IF path = CachePath THEN file ELSE disk
    /\ tmp' = IF path = CachePath THEN tmp ELSE file

\* os.replace(src, dst) with dst the cache path, line 96
ReplaceFile(src, dst) ==
    IF src = dst THEN UNCHANGED << disk, tmp >>
    ELSE /\ disk' = tmp
         /\ tmp' = NoFile

\* get_json is entered: lines 124-127
EnterGetJson(who, ep) ==
    /\ caller' = who
    /\ endpoint' = ep
    /\ allow_404' = Allow404Of(ep)
    /\ attempt' = 1
    /\ last_status' = 0
    /\ sleep_for' = 0
    /\ result' = None
    /\ nGet' = 0
    /\ nThrottle' = 0
    /\ respAt' = now
    /\ last429' = FALSE
    /\ lastHdr' = None
    /\ gapBefore' = 0
    /\ was429Before' = FALSE
    /\ hdrBefore' = None
    /\ all429' = TRUE
    /\ saw404' = FALSE
    /\ calls' = calls + 1
    /\ gpc' = "throttle"
    /\ UNCHANGED << now, last_request_ts, lastGetAt, prevGetAt, faultsLeft, upstream >>

\* line 129: _rate_limit_sleep()
GetJsonThrottle ==
    /\ gpc = "throttle"
    /\ now' = now + RateLimitSleepFor(now, last_request_ts)
    /\ last_request_ts' = now'
    /\ nThrottle' = nThrottle + 1
    /\ gpc' = "get"
    /\ UNCHANGED << caller, endpoint, allow_404, attempt, last_status, sleep_for,
                    result, nGet, lastGetAt, prevGetAt, respAt, last429, lastHdr,
                    gapBefore, was429Before, hdrBefore, all429, saw404, calls,
                    faultsLeft, upstream, probeVars, storeVars, pipeVars >>

\* lines 131-152 up to the sleep: session.get and what the answer leads to
GetJsonRequest ==
    /\ gpc = "get"
    /\ \E resp \in Responses(upstream, endpoint), lat \in upstream.latencies :
         LET c == Classify(resp, attempt, allow_404) IN
         /\ c.act = "sleep" => faultsLeft > 0
         /\ (c.act = "sleep" /\ upstream.sticky /\ nGet = 0) => faultsLeft >= Retries
         /\ (upstream.sticky /\ nGet > 0) => c.act = "sleep"
         /\ faultsLeft' = IF c.act = "sleep" THEN faultsLeft - 1 ELSE faultsLeft
         /\ prevGetAt' = lastGetAt
         /\ lastGetAt' = now
         /\ gapBefore' = now - respAt
         /\ was429Before' = last429
         /\ hdrBefore' = lastHdr
         /\ nGet' = nGet + 1
         /\ now' = now + lat
         /\ respAt' = now'
         /\ last429' = (resp.status = 429)
         /\ lastHdr' = resp.retry_after
         /\ last_status' = IF resp.status = TransportFailure
                           THEN last_status ELSE resp.status
         /\ all429' = (all429 /\ resp.status = 429)
         /\ saw404' = (saw404 \/ resp.status = 404)
         /\ sleep_for' = c.sleep
         /\ result' = IF c.act = "json" THEN resp.body ELSE None
         /\ gpc' = IF c.act = "sleep" THEN "sleep" ELSE "returned"
    /\ UNCHANGED << last_request_ts, caller, endpoint, allow_404, attempt,
                    nThrottle, calls, upstream, probeVars, storeVars, pipeVars >>

\* lines 137, 144, 152: time.sleep, then the next iteration, or line 154
\* when the loop is exhausted
GetJsonSleep ==
    /\ gpc = "sleep"
    /\ now' = now + sleep_for
    /\ sleep_for' = 0
    /\ IF LoopHasNext(attempt, Retries)
       THEN /\ attempt' = attempt + 1
            /\ gpc' = "throttle"
       ELSE /\ attempt' = attempt
            /\ gpc' = "raised"
    /\ UNCHANGED << last_request_ts, caller, endpoint, allow_404, last_status,
                    result, nGet, nThrottle, lastGetAt, prevGetAt, respAt,
                    last429, lastHdr, gapBefore, was429Before, hdrBefore,
                    all429, saw404, calls, faultsLeft, upstream, probeVars, storeVars, pipeVars >>

\* ------------------------------------------------------------------------
\* The fetcher on its own: get_json called as the enrichment call sites do
\* ------------------------------------------------------------------------
InitFetcher ==
    /\ last_request_ts = 0
    /\ gpc = "idle"
    /\ caller = "none"
    /\ endpoint = "stats"
    /\ allow_404 = FALSE
    /\ attempt = 0
    /\ last_status = 0
    /\ sleep_for = 0
    /\ result = None
    /\ nGet = 0
    /\ nThrottle = 0
    /\ lastGetAt = -1
    /\ prevGetAt = -1
    /\ respAt = 0
    /\ last429 = FALSE
    /\ lastHdr = None
    /\ gapBefore = 0
    /\ was429Before = FALSE
    /\ hdrBefore = None
    /\ all429 = TRUE
    /\ saw404 = FALSE
    /\ calls = 0

NoMiss == [pass |-> 0, at |-> 0, data |-> EmptyDict, status |-> 0]
NoMissLog == [id \in Ids |-> [f \in Fields |-> NoMiss]]

\* the state of a process that has not begun main
ProcessStart ==
    /\ error = "none"
    /\ release_ids = << >>
    /\ i = 0
    /\ cache = EmptyDict
    /\ stats = EmptyDict
    /\ rel = EmptyDict
    /\ hit_s = FALSE
    /\ hit_r = FALSE
    /\ cache_hits_stats = 0
    /\ cache_hits_rel = 0
    /\ rows = << >>
    /\ outWritten = FALSE
    /\ saves = 0
    /\ reads = 0
    /\ fetched = {}
    /\ callAt = 0
    /\ callsAt = 0
    /\ entryAt = EmptyDict
    /\ out = << >>
    /\ rootAt = EmptyDict
    /\ enrichLog = << >>

\* the variables of the load-and-save run in a behaviour that has none
InitNoStore ==
    /\ spc = "off"
    /\ loaded = EmptyDict
    /\ saveEnd = "none"

\* the pipeline variables of a behaviour that runs no pass
InitNoPipe ==
    /\ ProcessStart
    /\ mpc = "off"
    /\ no_cache = FALSE
    /\ marketplace_ttl = 0
    /\ release_details_ttl = 0
    /\ base_rows = << >>
    /\ disk = NoFile
    /\ tmp = NoFile
    /\ pass = 0
    /\ diskAtStart = NoFile
    /\ missLog = NoMissLog
    /\ missSaved = NoMissLog

\* lines 282-286 and 309: a call of get_json
CallGetJson ==
    /\ gpc \in {"idle", "returned", "raised"}
    /\ caller \in {"none", "harness"}
    /\ calls < MaxCalls
    /\ \E ep \in {"stats", "details"} : EnterGetJson("harness", ep)
    /\ UNCHANGED << probeVars, storeVars, pipeVars >>

NoProbe == [entry |-> EmptyDict, field |-> "marketplace_stats", ttl |-> 0]

InitFetch ==
    /\ InitFetcher
    /\ now = StartTime
    /\ faultsLeft = FetchFaults
    /\ \E cat \in Catalogs :
          upstream = [statuses |-> StatusCodes \cup {TransportFailure},
                      latencies |-> Latencies, sticky |-> FALSE, served |-> cat]
    /\ probe = NoProbe
    /\ probeOut = "unset"
    /\ InitNoPipe
    /\ InitNoStore

NextFetch ==
    \/ CallGetJson
    \/ GetJsonThrottle
    \/ GetJsonRequest
    \/ GetJsonSleep

SpecFetch == InitFetch /\ [][NextFetch]_vars

\* ------------------------------------------------------------------------
\* is_fresh on its own
\* ------------------------------------------------------------------------
ProbeNows == {1000, 1019, 1020, 1021, 1040}
\* --marketplace-ttl / --release-ttl values, in seconds
HugeTTL == 100
ProbeTTLArgs == {-1, 0, 1, 2, HugeTTL}
ProbeStamps ==
    { Stamp("iso", 980), Stamp("iso", 1000), Stamp("isoZ", 1000),
      Stamp("iso", 1020), Stamp("iso", 1060),
      Stamp("text", 0), Stamp("number", 0), NoStamp }
ProbeData == [want_count |-> Some(5), have_count |-> Some(2)]
ProbeFragments ==
    { [fetched_at |-> ts, data |-> ProbeData] : ts \in ProbeStamps }
    \cup { [data |-> ProbeData], NotADict }
ProbeEntries ==
    { EmptyDict, NotADict }
    \cup { [f \in {fld} |-> frag] : fld \in Fields, frag \in ProbeFragments }

InitFresh ==
    /\ InitFetcher
    /\ now \in ProbeNows
    /\ faultsLeft = 0
    /\ upstream = [statuses |-> {}, latencies |-> {}, sticky |-> FALSE,
                   served |-> CHOOSE cat \in Catalogs : TRUE]
    /\ probe \in [entry : ProbeEntries, field : Fields, ttl : ProbeTTLArgs]
    /\ probeOut = "unset"
    /\ InitNoPipe
    /\ InitNoStore

\* lines 416-417 and 107-113: one call of is_fresh with a TTL from the
\* command line
ApplyIsFresh ==
    /\ probeOut = "unset"
    /\ probeOut' =
          IF IsFreshRaises(probe.entry, probe.field) THEN "raise"
          ELSE IF IsFresh(probe.entry, probe.field, ClampTTL(probe.ttl), now)
          THEN "True" ELSE "False"
    /\ UNCHANGED << fetchVars, probe, pipeVars, storeVars >>

NextFresh == ApplyIsFresh

SpecFresh == InitFresh /\ [][NextFresh]_vars

\* ------------------------------------------------------------------------
\* main (app.py 365-522): the enrichment pass
\* ------------------------------------------------------------------------
\* runs of the program in one behaviour
MaxPasses == 2
\* time between the end of a run and the start of the next, in ticks
RestartGaps == {0, 1000}
\* the TTL arguments of the runs, in seconds: <<marketplace, release>>
PipeTTL == 30
PipeTTLs == { <<PipeTTL, PipeTTL>>, <<PipeTTL, 0>>, <<0, PipeTTL>> }
\* the release_id column of the input rows; 0 is a row without an id
PipeInputs == { << >>, <<0>>, <<1, 0, 2, 1>> }
\* the statuses the upstream answers with during a pass
PipeStatuses == {200, 401, 404, 503}

StoredStats == [num_for_sale |-> Some(3), blocked_from_sale |-> Some(FALSE), lowest_price |-> Some(7)]
StoredDetails == [want_count |-> Some(5), have_count |-> Some(2)]
RecentStamp == Stamp("iso", StartTime - 100)
OldStamp == Stamp("iso", StartTime - 900)
FutureStamp == Stamp("iso", StartTime + 100000)
FreshEntry ==
    [marketplace_stats |-> [fetched_at |-> RecentStamp, data |-> StoredStats],
     release_details |-> [fetched_at |-> RecentStamp, data |-> StoredDetails]]
MixedEntry ==
    [marketplace_stats |-> [fetched_at |-> RecentStamp, data |-> StoredStats],
     release_details |-> [fetched_at |-> OldStamp, data |-> StoredDetails]]
TextStampEntry ==
    [marketplace_stats |-> [fetched_at |-> Stamp("text", 0), data |-> StoredStats],
     release_details |-> [fetched_at |-> RecentStamp, data |-> StoredDetails]]
NoDataEntry ==
    [marketplace_stats |-> [fetched_at |-> RecentStamp],
     release_details |-> [fetched_at |-> RecentStamp, data |-> StoredDetails]]
BadFragmentEntry == [marketplace_stats |-> NotADict]
FutureEntry ==
    [release_details |-> [fetched_at |-> FutureStamp, data |-> StoredDetails]]

DiskRoot(releases) ==
    JsonDump([version |-> 1, updated_at |-> RecentStamp, releases |-> releases])

\* what the cache file may hold when the first run begins
PipeDisks ==
    { NoFile, BadFile,
      DiskRoot([k \in {"1", "2"} |-> FreshEntry]),
      DiskRoot([k \in {"1"} |-> MixedEntry]),
      DiskRoot([k \in {"1", "2"} |-> IF k = "1" THEN TextStampEntry ELSE FutureEntry]),
      DiskRoot([k \in {"1"} |-> NotADict]),
      DiskRoot([k \in {"1"} |-> NoDataEntry]),
      DiskRoot([k \in {"2"} |-> BadFragmentEntry]) }

\* the arguments and the cache file of the first run; without the cache
\* the TTLs are not used
NoCacheDisks ==
    { NoFile, BadFile, DiskRoot([k \in {"1", "2"} |-> FreshEntry]) }
PipeRuns ==
    [no_cache : {FALSE}, ttls : PipeTTLs, disk : PipeDisks]
    \cup [no_cache : {TRUE}, ttls : {<<PipeTTL, PipeTTL>>}, disk : NoCacheDisks]

InitPipe ==
    /\ InitFetcher
    /\ now = StartTime
    /\ faultsLeft = PipeFaults
    /\ \E cat \in Catalogs, lat \in Latencies :
          upstream = [statuses |-> PipeStatuses, latencies |-> {lat},
                      sticky |-> TRUE, served |-> cat]
    /\ probe = NoProbe
    /\ probeOut = "unset"
    /\ InitNoStore
    /\ ProcessStart
    /\ mpc = "start"
    /\ \E run \in PipeRuns :
          /\ no_cache = run.no_cache
          /\ marketplace_ttl = ClampTTL(run.ttls[1])
          /\ release_details_ttl = ClampTTL(run.ttls[2])
          /\ disk = run.disk
    /\ base_rows \in PipeInputs
    /\ tmp = NoFile
    /\ pass = 1
    /\ diskAtStart = disk
    /\ missLog = NoMissLog
    /\ missSaved = NoMissLog

\* where main goes after the loop of line 461
AfterLoop == IF SavesCache(no_cache) THEN "save" ELSE "output"

\* main ends with an exception
Fails(kind) ==
    /\ mpc' = "failed"
    /\ error' = kind

\* lines 425-430
MainLoadCache ==
    /\ mpc = "start"
    /\ IF no_cache
       THEN /\ cache' = FreshRoot(now)
            /\ reads' = reads
            /\ mpc' = "input"
            /\ error' = error
       ELSE /\ cache' = LoadCache(disk, now)
            /\ reads' = reads + 1
            /\ IF LoadCacheOutcome(disk, now).exc = "none"
               THEN mpc' = "input" /\ error' = error
               ELSE Fails("load")
    /\ UNCHANGED << fetchVars, probeVars, storeVars, out, rootAt, enrichLog,
                    no_cache, marketplace_ttl,
                    release_details_ttl, base_rows, release_ids, i, disk, tmp,
                    stats, rel, hit_s, hit_r, cache_hits_stats, cache_hits_rel,
                    rows, outWritten, pass, saves, diskAtStart, fetched,
                    callAt, callsAt, entryAt, missLog, missSaved >>

\* lines 443-459: the early exit on no rows, the distinct ids, the counters
MainLoadInput ==
    /\ mpc = "input"
    /\ IF base_rows = << >>
       THEN /\ mpc' = "exited"
            /\ UNCHANGED << release_ids, i >>
       ELSE /\ release_ids' = UniqueIds(base_rows)
            /\ i' = 1
            /\ mpc' = IF release_ids' = << >> THEN AfterLoop ELSE "stats"
    /\ UNCHANGED << fetchVars, probeVars, storeVars, out, rootAt, enrichLog,
                    error, no_cache, marketplace_ttl,
                    release_details_ttl, base_rows, cache, disk, tmp,
                    stats, rel, hit_s, hit_r, cache_hits_stats, cache_hits_rel,
                    rows, outWritten, pass, saves, reads, diskAtStart, fetched,
                    callAt, callsAt, entryAt, missLog, missSaved >>

argVars == << no_cache, marketplace_ttl, release_details_ttl, base_rows >>

\* the enrichment goes to the network
EnrichFetch(rid, ep, waitpc) ==
    /\ EnterGetJson(ep, ep)
    /\ fetched' = fetched \cup { << rid, ep >> }
    /\ mpc' = waitpc
    /\ UNCHANGED << error, stats, rel, hit_s, hit_r >>

\* the enrichment raises on what it finds in the cache
EnrichRaise ==
    /\ Fails("cache")
    /\ UNCHANGED << fetchVars, fetched, stats, rel, hit_s, hit_r >>

\* the enrichment returns the stored data
EnrichHit(entry, field, donepc) ==
    /\ mpc' = donepc
    /\ IF field = "marketplace_stats"
       THEN /\ stats' = entry[field]["data"]
            /\ hit_s' = TRUE
            /\ UNCHANGED << rel, hit_r >>
       ELSE /\ rel' = entry[field]["data"]
            /\ hit_r' = TRUE
            /\ UNCHANGED << stats, hit_s >>
    /\ UNCHANGED << fetchVars, fetched, error >>

\* an enrichment of one field of release_ids[i] begins: lines 463 / 478
\* without the cache, lines 277-282 / 304-309 with it
EnrichBegin(field, ep, ttl, waitpc, donepc) ==
    LET rid == release_ids[i]
        entry == CacheGetRelease(cache, rid)
    IN
    /\ callAt' = now
    /\ callsAt' = calls
    /\ entryAt' = IF no_cache THEN EmptyDict ELSE entry
    /\ rootAt' = cache
    /\ IF no_cache THEN EnrichFetch(rid, ep, waitpc)
       ELSE IF IsFreshRaises(entry, field) THEN EnrichRaise
       ELSE IF IsFresh(entry, field, ttl, now)
       THEN IF DataMissing(entry, field) THEN EnrichRaise
            ELSE EnrichHit(entry, field, donepc)
       ELSE EnrichFetch(rid, ep, waitpc)
    /\ enrichLog' = Append(enrichLog, [id |-> rid, field |-> field,
                                       fetch |-> (mpc' = waitpc)])
    /\ UNCHANGED << probeVars, storeVars, out, argVars, release_ids, i, cache, disk, tmp,
                    cache_hits_stats, cache_hits_rel, rows,
                    outWritten, pass, saves, reads, diskAtStart, missLog, missSaved >>

\* get_json has ended: lines 288-300 / 310-315 (468-480 without the cache)
EnrichEnd(field, waitpc, donepc) ==
    LET rid == release_ids[i]
        entry == CacheGetRelease(cache, rid)
        data == IF field = "marketplace_stats"
                THEN NormalizeStats(result) ELSE NormalizeDetails(result)
    IN
    /\ mpc = waitpc
    /\ gpc \in {"returned", "raised"}
    /\ IF gpc = "raised"
       THEN /\ mpc' = AfterRaise
            /\ error' = "fetch"
            /\ UNCHANGED << cache, stats, rel, hit_s, hit_r, missLog >>
       ELSE /\ mpc' = donepc
            /\ error' = error
            /\ IF field = "marketplace_stats"
               THEN /\ stats' = data
                    /\ hit_s' = FALSE
                    /\ UNCHANGED << rel, hit_r >>
               ELSE /\ rel' = data
                    /\ hit_r' = FALSE
                    /\ UNCHANGED << stats, hit_s >>
            /\ IF no_cache
               THEN UNCHANGED << cache, missLog >>
               ELSE /\ cache' = CachePutRelease(cache, rid,
                                    EntryWith(entry, field, Fragment(data, now)))
                    /\ missLog' = [missLog EXCEPT ![rid][field] =
                                      [pass |-> pass, at |-> now, data |-> data,
                                       status |-> last_status]]
    /\ UNCHANGED << fetchVars, probeVars, storeVars, out, rootAt, enrichLog,
                    argVars, release_ids, i, disk, tmp,
                    cache_hits_stats, cache_hits_rel, rows, outWritten, pass,
                    saves, reads, diskAtStart, fetched, callAt, callsAt, entryAt,
                    missSaved >>

\* lines 463-467, or line 482 down to the call of get_json
StatsBegin ==
    /\ mpc = "stats"
    /\ EnrichBegin("marketplace_stats", "stats", marketplace_ttl, "stats_wait", "details")

\* lines 468-476, or lines 288-300
StatsEnd ==
    /\ mpc = "stats_wait"
    /\ EnrichEnd("marketplace_stats", "stats_wait", "details")

\* line 478, or line 483 down to the call of get_json
DetailsBegin ==
    /\ mpc = "details"
    /\ EnrichBegin("release_details", "details", release_details_ttl, "details_wait", "merge")

\* lines 479-480, or lines 310-315
DetailsEnd ==
    /\ mpc = "details_wait"
    /\ EnrichEnd("release_details", "details_wait", "merge")

\* lines 484-489: the hit counters and the merged record
MergeRow ==
    /\ mpc = "merge"
    /\ cache_hits_stats' = IF ~no_cache /\ hit_s THEN cache_hits_stats + 1 ELSE cache_hits_stats
    /\ cache_hits_rel' = IF ~no_cache /\ hit_r THEN cache_hits_rel + 1 ELSE cache_hits_rel
    /\ rows' = Append(rows, MergedRecord(release_ids[i], stats, rel))
    /\ IF i < Len(release_ids)
       THEN /\ i' = i + 1
            /\ mpc' = "stats"
       ELSE /\ i' = i
            /\ mpc' = AfterLoop
    /\ UNCHANGED << fetchVars, probeVars, storeVars, out, rootAt, enrichLog,
                    argVars, error, release_ids, cache, disk,
                    tmp, stats, rel, hit_s, hit_r, outWritten, pass, saves, reads,
                    diskAtStart, fetched, callAt, callsAt, entryAt, missLog, missSaved >>

\* save_cache, lines 92-95: stamp updated_at and write the temporary file
SaveCacheWriteTmp ==
    /\ mpc = "save"
    /\ cache' = Stamped(cache, now)
    /\ WriteFile(TmpPath(CachePath), JsonDump(cache'))
    /\ mpc' = "replace"
    /\ UNCHANGED << fetchVars, probeVars, storeVars, out, rootAt, enrichLog,
                    argVars, error, release_ids, i,
                    stats, rel, hit_s, hit_r, cache_hits_stats, cache_hits_rel,
                    rows, outWritten, pass, saves, reads, diskAtStart, fetched,
                    callAt, callsAt, entryAt, missLog, missSaved >>

\* save_cache, line 96: os.replace(tmp_path, cache_path)
SaveCacheReplace ==
    /\ mpc = "replace"
    /\ ReplaceFile(TmpPath(CachePath), CachePath)
    /\ saves' = saves + 1
    /\ missSaved' = missLog
    /\ mpc' = "output"
    /\ UNCHANGED << fetchVars, probeVars, storeVars, out, rootAt, enrichLog,
                    argVars, error, release_ids, i, cache,
                    stats, rel, hit_s, hit_r, cache_hits_stats, cache_hits_rel,
                    rows, outWritten, pass, reads, diskAtStart, fetched,
                    callAt, callsAt, entryAt, missLog >>

\* lines 498-522: the merge on release_id raises KeyError when no record
\* was merged, otherwise the ranked CSV is written
MainWriteOutput ==
    /\ mpc = "output"
    /\ IF rows = << >>
       THEN /\ Fails("merge")
            /\ outWritten' = outWritten
            /\ out' = out
       ELSE /\ mpc' = "done"
            /\ error' = error
            /\ outWritten' = TRUE
            /\ out' = RankedOutput(base_rows, rows)
    /\ UNCHANGED << fetchVars, probeVars, storeVars, rootAt, enrichLog,
                    argVars, release_ids, i, cache, disk,
                    tmp, stats, rel, hit_s, hit_r, cache_hits_stats, cache_hits_rel,
                    rows, pass, saves, reads, diskAtStart, fetched,
                    callAt, callsAt, entryAt, missLog, missSaved >>

\* the globals and locals of a new process
ProcessReset ==
    /\ last_request_ts' = 0
    /\ gpc' = "idle"
    /\ caller' = "none"
    /\ endpoint' = "stats"
    /\ allow_404' = FALSE
    /\ attempt' = 0
    /\ last_status' = 0
    /\ sleep_for' = 0
    /\ result' = None
    /\ nGet' = 0
    /\ nThrottle' = 0
    /\ lastGetAt' = -1
    /\ prevGetAt' = -1
    /\ respAt' = 0
    /\ last429' = FALSE
    /\ lastHdr' = None
    /\ gapBefore' = 0
    /\ was429Before' = FALSE
    /\ hdrBefore' = None
    /\ all429' = TRUE
    /\ saw404' = FALSE
    /\ calls' = 0
    /\ error' = "none"
    /\ release_ids' = << >>
    /\ i' = 0
    /\ cache' = EmptyDict
    /\ stats' = EmptyDict
    /\ rel' = EmptyDict
    /\ hit_s' = FALSE
    /\ hit_r' = FALSE
    /\ cache_hits_stats' = 0
    /\ cache_hits_rel' = 0
    /\ rows' = << >>
    /\ outWritten' = FALSE
    /\ saves' = 0
    /\ reads' = 0
    /\ fetched' = {}
    /\ callAt' = 0
    /\ callsAt' = 0
    /\ entryAt' = EmptyDict
    /\ out' = << >>
    /\ rootAt' = EmptyDict
    /\ enrichLog' = << >>

\* lines 525-526: the program is run again, a new process with the same
\* arguments and the files the last run left
Restart ==
    /\ mpc \in {"done", "exited", "failed"}
    /\ pass < MaxPasses
    /\ \E gap \in RestartGaps : now' = now + gap
    /\ ProcessReset
    /\ mpc' = "start"
    /\ pass' = pass + 1
    /\ diskAtStart' = disk
    /\ missLog' = missSaved
    /\ \E cat \in Catalogs : upstream' = [upstream EXCEPT !.served = cat]
    /\ UNCHANGED << faultsLeft, probeVars, storeVars, argVars, disk, tmp, missSaved >>

NextPipe ==
    \/ MainLoadCache
    \/ MainLoadInput
    \/ StatsBegin
    \/ StatsEnd
    \/ DetailsBegin
    \/ DetailsEnd
    \/ MergeRow
    \/ SaveCacheWriteTmp
    \/ SaveCacheReplace
    \/ MainWriteOutput
    \/ Restart
    \/ GetJsonThrottle
    \/ GetJsonRequest
    \/ GetJsonSleep

SpecPipe == InitPipe /\ [][NextPipe]_vars

\* ------------------------------------------------------------------------
\* One run of main over a cache that holds many different records, with an
\* upstream whose 404 answers come and go
\* ------------------------------------------------------------------------
\* failed attempts the upstream may cause in such a run
RankFaults == 2
\* the release_id column of the input rows; 0 is a row without an id
RankInputs == { << 2, 0, 1, 2 >>, << 1, 2 >> }
\* the statuses the upstream answers with
RankStatuses == {200, 404}

\* the data of the fragments the cache file holds, as earlier runs
\* normalized them
RankStats ==
    { [num_for_sale |-> n, blocked_from_sale |-> b,
       lowest_price |-> IF n = Some(3) THEN Some(7) ELSE None] :
         n \in {None, Some(0), Some(3)}, b \in {None, Some(FALSE), Some(TRUE)} }
RankDetails ==
    { [want_count |-> w, have_count |-> Some(2)] : w \in {None, Some(0), Some(5)} }
RankEntries ==
    { [marketplace_stats |-> [fetched_at |-> RecentStamp, data |-> st],
       release_details |-> [fetched_at |-> RecentStamp, data |-> d]] :
         st \in RankStats, d \in RankDetails }

\* the cache file when the run begins: a fresh entry for both ids, or for
\* one of them, or for none
RankDisks ==
    { DiskRoot(r) : r \in [{"1", "2"} -> RankEntries] \cup [{"1"} -> RankEntries]
                          \cup [{"2"} -> RankEntries] \cup {EmptyDict} }

InitRank ==
    /\ InitFetcher
    /\ now = StartTime
    /\ faultsLeft = RankFaults
    /\ \E cat \in Catalogs :
          upstream = [statuses |-> RankStatuses, latencies |-> {0},
                      sticky |-> FALSE, served |-> cat]
    /\ probe = NoProbe
    /\ probeOut = "unset"
    /\ InitNoStore
    /\ ProcessStart
    /\ mpc = "start"
    /\ no_cache = FALSE
    /\ marketplace_ttl = ClampTTL(PipeTTL)
    /\ release_details_ttl = ClampTTL(PipeTTL)
    /\ disk \in RankDisks
    /\ base_rows \in RankInputs
    /\ tmp = NoFile
    /\ pass = 1
    /\ diskAtStart = disk
    /\ missLog = NoMissLog
    /\ missSaved = NoMissLog

NextRank ==
    \/ MainLoadCache
    \/ MainLoadInput
    \/ StatsBegin
    \/ StatsEnd
    \/ DetailsBegin
    \/ DetailsEnd
    \/ MergeRow
    \/ SaveCacheWriteTmp
    \/ SaveCacheReplace
    \/ MainWriteOutput
    \/ GetJsonThrottle
    \/ GetJsonRequest
    \/ GetJsonSleep

SpecRank == InitRank /\ [][NextRank]_vars

\* ------------------------------------------------------------------------
\* The cache store on its own: load_cache and save_cache (app.py 73-96)
\* ------------------------------------------------------------------------
SentinelStats == [num_for_sale |-> None, blocked_from_sale |-> None, lowest_price |-> None]
SentinelEntry ==
    [marketplace_stats |-> [fetched_at |-> OldStamp, data |-> SentinelStats]]

\* the releases of the roots handed to save_cache
StoreReleases ==
    { EmptyDict,
      [k \in {"1"} |-> MixedEntry],
      [k \in {"2"} |-> SentinelEntry],
      [k \in {"1", "2"} |-> IF k = "1" THEN FreshEntry ELSE SentinelEntry] }

\* structurally valid roots
StoreRoots ==
    { [version |-> v, updated_at |-> OldStamp, releases |-> r] :
         v \in {1, 2}, r \in StoreReleases }

\* what the cache file may hold before the run
StoreFiles ==
    { NoFile, UnreadableFile, BadFile,
      [kind |-> "json", doc |-> NotADict],
      JsonDump(EmptyDict),
      JsonDump([releases |-> NotADict]),
      JsonDump([version |-> 2, releases |-> [k \in {"1"} |-> FreshEntry]]),
      JsonDump([updated_at |-> OldStamp]),
      DiskRoot([k \in {"1"} |-> NotADict]),
      DiskRoot([k \in {"1", "2"} |-> FreshEntry]) }

\* what a run that was interrupted earlier may have left at the temporary
\* path
StoreTmpFiles == { NoFile, PartialDump(FreshRoot(0)) }

InitStore ==
    /\ InitFetcher
    /\ now = StartTime
    /\ faultsLeft = 0
    /\ upstream = [statuses |-> {}, latencies |-> {}, sticky |-> FALSE,
                   served |-> CHOOSE cat \in Catalogs : TRUE]
    /\ probe = NoProbe
    /\ probeOut = "unset"
    /\ mpc = "off"
    /\ error = "none"
    /\ no_cache = FALSE
    /\ marketplace_ttl = 0
    /\ release_details_ttl = 0
    /\ base_rows = << >>
    /\ release_ids = << >>
    /\ i = 0
    /\ cache \in StoreRoots
    /\ disk \in StoreFiles
    /\ tmp \in StoreTmpFiles
    /\ stats = EmptyDict
    /\ rel = EmptyDict
    /\ hit_s = FALSE
    /\ hit_r = FALSE
    /\ cache_hits_stats = 0
    /\ cache_hits_rel = 0
    /\ rows = << >>
    /\ outWritten = FALSE
    /\ pass = 0
    /\ saves = 0
    /\ reads = 0
    /\ diskAtStart = disk
    /\ fetched = {}
    /\ callAt = 0
    /\ callsAt = 0
    /\ entryAt = EmptyDict
    /\ missLog = NoMissLog
    /\ missSaved = NoMissLog
    /\ out = << >>
    /\ rootAt = EmptyDict
    /\ enrichLog = << >>
    /\ spc = "idle"
    /\ loaded = EmptyDict
    /\ saveEnd = "none"

\* what the store run leaves alone
storeFrame == << last_request_ts, gpc, caller, endpoint, allow_404, attempt,
                 last_status, sleep_for, result, nGet, nThrottle,
                 lastGetAt, prevGetAt, respAt, last429, lastHdr, gapBefore,
                 was429Before, hdrBefore, all429, saw404, calls, faultsLeft,
                 upstream, probeVars, mpc, error, no_cache, marketplace_ttl,
                 release_details_ttl, base_rows, release_ids, i, stats, rel,
                 hit_s, hit_r, cache_hits_stats, cache_hits_rel, rows,
                 outWritten, pass, saves, diskAtStart, fetched, callAt,
                 callsAt, entryAt, missLog, missSaved, out, rootAt, enrichLog >>

\* load_cache(cache_path), by this process or by a later one
StoreLoad ==
    /\ spc \in {"idle", "ended"}
    /\ LET r == LoadCacheOutcome(disk, now) IN
         /\ loaded' = r.root
         /\ spc' = IF r.exc # "none" THEN "load_raised"
                   ELSE IF spc = "idle" THEN "loaded" ELSE "reloaded"
    /\ reads' = reads + 1
    /\ UNCHANGED << storeFrame, now, cache, disk, tmp, saveEnd >>

\* save_cache line 92
StoreSaveStamp ==
    /\ spc = "idle"
    /\ cache' = Stamped(cache, now)
    /\ spc' = "stamped"
    /\ UNCHANGED << storeFrame, now, disk, tmp, loaded, saveEnd, reads >>

\* save_cache line 94: open(tmp_path, "w")
StoreSaveOpen ==
    /\ spc = "stamped"
    /\ WriteFile(TmpPath(CachePath), TruncatedFile)
    /\ spc' = "opened"
    /\ UNCHANGED << storeFrame, now, cache, loaded, saveEnd, reads >>

\* save_cache line 95: json.dump writes the document and the file is
\* closed, or a write fails on the way and the exception leaves save_cache
StoreSaveDump ==
    /\ spc = "opened"
    /\ \/ /\ WriteFile(TmpPath(CachePath), JsonDump(cache))
          /\ spc' = "written"
          /\ saveEnd' = saveEnd
       \/ /\ WriteFile(TmpPath(CachePath), PartialDump(cache))
          /\ spc' = "ended"
          /\ saveEnd' = "failed"
    /\ UNCHANGED << storeFrame, now, cache, loaded, reads >>

\* save_cache line 96
StoreSaveReplace ==
    /\ spc = "written"
    /\ ReplaceFile(TmpPath(CachePath), CachePath)
    /\ spc' = "ended"
    /\ saveEnd' = "saved"
    /\ UNCHANGED << storeFrame, now, cache, loaded, reads >>

\* the process is killed between two steps of save_cache, or while
\* json.dump is writing
StoreInterrupt ==
    /\ spc \in {"stamped", "opened", "written"}
    /\ IF spc = "opened"
       THEN \E file \in {TruncatedFile, PartialDump(cache)} :
               WriteFile(TmpPath(CachePath), file)
       ELSE UNCHANGED << disk, tmp >>
    /\ spc' = "ended"
    /\ saveEnd' = "interrupted"
    /\ UNCHANGED << storeFrame, now, cache, loaded, reads >>

\* time passes before a later process loads the cache
StoreWait ==
    /\ spc = "ended"
    /\ now = StartTime
    /\ \E gap \in RestartGaps \ {0} : now' = now + gap
    /\ UNCHANGED << storeFrame, cache, disk, tmp, loaded, saveEnd, reads, spc >>

NextStore ==
    \/ StoreLoad
    \/ StoreSaveStamp
    \/ StoreSaveOpen
    \/ StoreSaveDump
    \/ StoreSaveReplace
    \/ StoreInterrupt
    \/ StoreWait

SpecStore == InitStore /\ [][NextStore]_vars

\* ========================================================================
\* Properties of get_json and the rate limiter (checked under SpecFetch)
\* ========================================================================
\* a non-success status that is neither 429, nor 500/502/503/504, nor a
\* 404 the caller allows
TerminalStatus(s, allow) ==
    /\ s >= 400
    /\ s # 429
    /\ s \notin {500, 502, 503, 504}
    /\ ~(allow /\ s = 404)

\* C1: once a call of get_json has received a status such as 401, 403 or a
\* 404 it does not allow, the call has raised: it is at no throttle, no
\* sleep and no GET any more.
C1_TerminalStatusRaisesAtOnce ==
    (calls > 0 /\ TerminalStatus(last_status, allow_404)) => gpc = "raised"

\* C2: a call of get_json issues at most 5 GETs, every step of it is within
\* the 5 attempts, and it ends in one of three ways: a parsed value after
\* a 200, None after an allowed 404, or the failure of line 154; after 5
\* failed attempts it has raised and holds no value.
C2_AtMostFiveGetsThenEnds ==
    /\ nGet <= 5
    /\ attempt <= 5
    /\ gpc = "throttle" => (nGet = attempt - 1 /\ nThrottle = attempt - 1)
    /\ gpc = "get" => (nGet = attempt - 1 /\ nThrottle = attempt)
    /\ gpc = "sleep" => (nGet = attempt /\ nThrottle = attempt)
    /\ gpc = "returned" =>
          \/ last_status = 200 /\ result # None
          \/ last_status = 404 /\ allow_404 /\ result = None
    /\ (nGet = 5 /\ gpc \notin {"sleep", "returned"}) => gpc = "raised"
    /\ gpc = "raised" => result = None

\* five attempts were made and the call raised
W_C2_Exhausted == gpc = "raised" /\ nGet = 5 /\ ~all429

\* the wait a 429 asks for, in ticks
AskedWait(hdr) ==
    IF hdr = None THEN 60 * TicksPerSecond
    ELSE (CHOOSE h \in hdr : TRUE) * TicksPerSecond

\* C3: the GET after a 429 comes no sooner than Retry-After seconds (60
\* without the header) after that answer; the sleep after a 429 is that
\* wait and nothing else; a 429 uses one attempt, and 5 of them in a row
\* end in the failure of line 154.
C3_RetryAfterHonoured ==
    /\ was429Before => gapBefore >= AskedWait(hdrBefore)
    /\ (gpc = "sleep" /\ last429) => (sleep_for = AskedWait(lastHdr) /\ nGet = attempt)
    /\ (all429 /\ nGet = 5 /\ gpc \notin {"sleep"}) => gpc = "raised"

\* a GET was issued after a 429 with Retry-After: 5, and the call, all of
\* whose answers were 429, raised
W_C3_FiveTimes429 ==
    /\ gpc = "raised" /\ all429 /\ nGet = 5
    /\ was429Before /\ hdrBefore = Some(5)

\* C4: a throttle precedes every GET and any two consecutive GETs of the
\* process are at least the minimum interval apart, within one call and
\* across calls.
C4_MinIntervalBetweenGets ==
    /\ nGet <= nThrottle
    /\ prevGetAt >= 0 => lastGetAt - prevGetAt >= MIN_SECONDS_PER_REQUEST
    /\ (lastGetAt >= 0 /\ gpc # "get") => lastGetAt = last_request_ts

\* the first GET of a second call, exactly the minimum interval after the
\* last GET of the first call to another endpoint
W_C4_AcrossCalls ==
    /\ calls = 2 /\ nGet = 1 /\ endpoint = "details"
    /\ prevGetAt >= 0 /\ lastGetAt - prevGetAt = MIN_SECONDS_PER_REQUEST

\* ========================================================================
\* Properties of is_fresh (checked under SpecFresh)
\* ========================================================================
ProbeMeta == Get(probe.entry, probe.field, EmptyDict)
ProbeStamp == Get(ProbeMeta, "fetched_at", NoStamp)
ProbeHasTimestamp ==
    /\ IsDict(probe.entry) /\ IsDict(ProbeMeta)
    /\ "fetched_at" \in DOMAIN ProbeMeta
    /\ ProbeStamp.k \in {"iso", "isoZ"}
ProbeAge == now - ProbeStamp.t
ProbeTTLTicks == ClampTTL(probe.ttl) * TicksPerSecond

\* C5: for a fragment with a parseable fetched_at and a TTL >= 0, is_fresh
\* is true exactly when 0 <= now - fetched_at < ttl.
C5_FreshIffAgeWithinTTL ==
    (probeOut # "unset" /\ ProbeHasTimestamp) =>
        /\ probeOut \in {"True", "False"}
        /\ (probeOut = "True") <=> (0 <= ProbeAge /\ ProbeAge < ProbeTTLTicks)

\* a fragment whose age equals a positive TTL, found not fresh
W_C5_BoundaryNotFresh ==
    /\ probeOut = "False" /\ ProbeHasTimestamp
    /\ ProbeTTLTicks > 0 /\ ProbeAge = ProbeTTLTicks

\* the fragment is a dict whose fetched_at is absent, null, or no timestamp
ProbeLacksTimestamp ==
    /\ IsDict(probe.entry) /\ IsDict(ProbeMeta)
    /\ "fetched_at" \notin DOMAIN ProbeMeta \/ ProbeStamp.k \notin {"iso", "isoZ"}

\* C6: a fragment whose fetched_at is missing or is no timestamp is not
\* fresh, whatever the TTL.
C6_NoTimestampNeverFresh ==
    (probeOut # "unset" /\ ProbeLacksTimestamp) => probeOut = "False"

\* ========================================================================
\* Properties of the enrichment pass (checked under SpecPipe)
\* ========================================================================
\* the fragment of a field, as the current enrichment call found it
FoundFragment(field) == Get(entryAt, field, EmptyDict)

\* that fragment is whole, and its age when the call began is within ttl
FoundWithinTTL(field, ttl) ==
    /\ IsDict(entryAt)
    /\ IsDict(FoundFragment(field))
    /\ DOMAIN FoundFragment(field) = {"fetched_at", "data"}
    /\ FoundFragment(field)["fetched_at"].k \in {"iso", "isoZ"}
    /\ 0 <= callAt - FoundFragment(field)["fetched_at"].t
    /\ callAt - FoundFragment(field)["fetched_at"].t < ttl * TicksPerSecond

AfterLoopPcs == {"save", "replace", "output", "done"}

\* C7: an enrichment call on a fragment within its TTL is a hit; a hit
\* returns the stored data and starts no get_json call, hence no throttle
\* and no GET; a pass whose enrichments were all hits has issued no GET.
C7_HitIssuesNoFetch ==
    /\ (mpc = "details" /\ ~no_cache) =>
          /\ FoundWithinTTL("marketplace_stats", marketplace_ttl) => hit_s
          /\ hit_s => /\ calls = callsAt
                      /\ << release_ids[i], "stats" >> \notin fetched
                      /\ stats = FoundFragment("marketplace_stats")["data"]
    /\ (mpc = "merge" /\ ~no_cache) =>
          /\ FoundWithinTTL("release_details", release_details_ttl) => hit_r
          /\ hit_r => /\ calls = callsAt
                      /\ << release_ids[i], "details" >> \notin fetched
                      /\ rel = FoundFragment("release_details")["data"]
    /\ ( /\ mpc \in AfterLoopPcs /\ ~no_cache
         /\ cache_hits_stats = Len(release_ids)
         /\ cache_hits_rel = Len(release_ids) ) =>
          (calls = 0 /\ fetched = {} /\ lastGetAt = -1 /\ nThrottle = 0)

\* a pass over two identifiers, all four fragments fresh, ended without a GET
W_C7_AllHits ==
    /\ mpc = "done" /\ ~no_cache /\ Len(release_ids) = 2
    /\ cache_hits_stats = 2 /\ cache_hits_rel = 2 /\ calls = 0

\* the latest miss stored for the identifier being enriched
MissOf(field) == missLog[release_ids[i]][field]

\* that miss was stored by an earlier run, and the current call began at
\* an age below a positive ttl
EarlierMissWithinTTL(field, ttl) ==
    /\ ~no_cache
    /\ MissOf(field).pass > 0
    /\ MissOf(field).pass < pass
    /\ ttl > 0
    /\ 0 <= callAt - MissOf(field).at
    /\ callAt - MissOf(field).at < ttl * TicksPerSecond

\* C8: after a miss for (identifier, field) was stored, saved and loaded,
\* an enrichment call for the same pair at an age below a TTL > 0 is a hit,
\* returns the data the miss returned, with the same keys, and fetches
\* nothing.
C8_HitReturnsWhatTheMissStored ==
    /\ mpc = "stats_wait" => ~EarlierMissWithinTTL("marketplace_stats", marketplace_ttl)
    /\ mpc = "details_wait" => ~EarlierMissWithinTTL("release_details", release_details_ttl)
    /\ (mpc = "details" /\ EarlierMissWithinTTL("marketplace_stats", marketplace_ttl)) =>
          /\ hit_s
          /\ stats = MissOf("marketplace_stats").data
          /\ DOMAIN stats = DOMAIN MissOf("marketplace_stats").data
          /\ calls = callsAt
    /\ (mpc = "merge" /\ EarlierMissWithinTTL("release_details", release_details_ttl)) =>
          /\ hit_r
          /\ rel = MissOf("release_details").data
          /\ DOMAIN rel = DOMAIN MissOf("release_details").data
          /\ calls = callsAt

\* the second run hits what the first run fetched, although the upstream
\* now serves other data
W_C8_HitAfterReload ==
    /\ pass = 2 /\ mpc = "merge" /\ hit_s /\ hit_r
    /\ MissOf("marketplace_stats").pass = 1
    /\ MissOf("release_details").pass = 1
    /\ stats = MissOf("marketplace_stats").data
    /\ rel = MissOf("release_details").data
    /\ stats # NormalizeStats(Some(upstream.served["stats"]))
    /\ rel # NormalizeDetails(Some(upstream.served["details"]))

\* every <<id, endpoint>> of the ids of the pass
AllFetches ==
    { << release_ids[k], ep >> : k \in 1..Len(release_ids), ep \in {"stats", "details"} }

\* C9: with the cache enabled the cache file is replaced once in a pass that
\* completes, after the last identifier and not before; with the cache
\* disabled the file is neither read nor written and every identifier gets
\* both live fetches.
C9_PersistOnceAfterThePass ==
    /\ saves <= 1
    /\ (~no_cache /\ mpc = "done") => saves = 1
    /\ mpc \notin {"output", "done", "failed"} => (saves = 0 /\ disk = diskAtStart)
    /\ saves = 1 => Len(rows) = Len(release_ids)
    /\ no_cache => (reads = 0 /\ saves = 0 /\ disk = diskAtStart /\ tmp = NoFile)
    /\ (no_cache /\ mpc \in {"output", "done"}) =>
          (fetched = AllFetches /\ calls = 2 * Len(release_ids))

\* a pass over two identifiers completed and replaced the cache file once
W_C9_SavedOnce ==
    /\ mpc = "done" /\ ~no_cache /\ saves = 1
    /\ Len(release_ids) = 2 /\ disk # diskAtStart

\* C10: when a fetch of the loop ends in the failure of line 154 the run
\* ends there: nothing was fetched for a later identifier, no output is
\* written, and the cache file and its temporary file are untouched.
C10_FailureAbortsThePass ==
    error = "fetch" =>
        /\ mpc = "failed"
        /\ gpc = "raised"
        /\ ~outWritten
        /\ saves = 0
        /\ disk = diskAtStart
        /\ tmp = NoFile
        /\ Len(rows) = i - 1
        /\ \A f \in fetched : \E k \in 1..i : release_ids[k] = f[1]

\* the fetch for the second identifier failed after the fragments of the
\* first were fetched into the root, and the file is as it was
W_C10_FailedOnSecondId ==
    /\ error = "fetch" /\ ~no_cache /\ i = 2
    /\ missLog[release_ids[1]]["marketplace_stats"].pass = pass
    /\ missLog[release_ids[1]]["release_details"].pass = pass
    /\ disk = diskAtStart

\* ========================================================================
\* Properties of load_cache and save_cache (checked under SpecStore)
\* ========================================================================
\* the file gives load_cache no mapping root: it is missing or unreadable,
\* is no valid JSON, or its root is no object
NoRootIn(file) ==
    \/ file.kind \in {"missing", "unreadable", "text", "partial"}
    \/ file.kind = "json" /\ ~IsDict(file.doc)

RootKeys == {"version", "updated_at", "releases"}

\* C11: load_cache never raises; from a file that is missing, unreadable,
\* no valid JSON, or whose root is no mapping it returns a fresh empty root
\* with releases == {}; whatever the file, the root it returns has version,
\* updated_at and a releases that is a mapping.
C11_LoadCacheNeverRaises ==
    /\ spc # "load_raised"
    /\ spc \in {"loaded", "reloaded"} =>
          /\ IsDict(loaded)
          /\ RootKeys \subseteq DOMAIN loaded
          /\ IsDict(loaded["releases"])
          /\ NoRootIn(disk) =>
                (loaded = FreshRoot(now) /\ loaded["releases"] = EmptyDict)

\* load_cache was given an unreadable file and returned the fresh root
W_C11_UnreadableFile ==
    /\ spc = "loaded" /\ disk = UnreadableFile
    /\ loaded = FreshRoot(now)

\* C12: from the first step of save_cache on, whether it runs to its end,
\* fails in json.dump or is killed between two steps, the file at the cache
\* path is the file that was there before or the complete document of the
\* stamped root, never a partial one, and a load_cache that follows returns
\* the root of one of the two.
C12_CacheFileOldOrNew ==
    /\ disk.kind # "partial"
    /\ disk = diskAtStart \/ (saveEnd = "saved" /\ disk = JsonDump(cache))
    /\ saveEnd \in {"failed", "interrupted"} => disk = diskAtStart
    /\ spc = "reloaded" =>
          \/ loaded = LoadCache(diskAtStart, now)
          \/ saveEnd = "saved" /\ loaded = cache

\* save_cache was killed while json.dump was writing: the temporary file
\* is partial, the cache file is the old one, and the later load read it
W_C12_KilledWhileWriting ==
    /\ spc = "reloaded" /\ saveEnd = "interrupted"
    /\ tmp = PartialDump(cache)
    /\ diskAtStart.kind = "json" /\ disk = diskAtStart
    /\ loaded = LoadCache(diskAtStart, now) /\ loaded # cache

\* C13: load_cache of the file save_cache wrote equals the root as
\* save_cache left it, entries, fragments, fetched_at and data included.
C13_SaveLoadRoundTrip ==
    (spc = "reloaded" /\ saveEnd = "saved") =>
        /\ loaded = cache
        /\ DOMAIN loaded = DOMAIN cache
        /\ \A k \in DOMAIN cache["releases"] :
              loaded["releases"][k] = cache["releases"][k]

\* a root of version 2 with two entries, one holding absent values, was
\* saved and loaded later
W_C13_TwoEntriesLater ==
    /\ spc = "reloaded" /\ saveEnd = "saved" /\ now > StartTime
    /\ cache["version"] = 2
    /\ DOMAIN cache["releases"] = {"1", "2"}
    /\ cache["releases"]["2"] = SentinelEntry
    /\ loaded = cache

\* ========================================================================
\* Properties of the score and the ranked output (checked under SpecRank)
\* ========================================================================
OutBlocked(r) == r["blocked_from_sale"] = Some(TRUE)

\* C14: a record whose blocked_from_sale is true has the score -1e9
\* whatever its other fields hold, and in the ranked output every row of a
\* blocked item has a larger Sell Order than every row of an item that is
\* not blocked, the rows without a score included.
C14_BlockedSortLast ==
    /\ \A k \in 1..Len(rows) :
          rows[k]["blocked_from_sale"] = Some(TRUE) =>
             rows[k]["liquidity_score"] = BlockedSentinel
    /\ \A p, q \in 1..Len(out) :
          (OutBlocked(out[p]) /\ ~OutBlocked(out[q])) =>
             out[p]["Sell Order"] > out[q]["Sell Order"]

\* cell x holds a smaller count than cell y
CountSmaller(x, y) ==
    /\ x # None /\ y # None
    /\ (CHOOSE v \in x : TRUE) < (CHOOSE v \in y : TRUE)

\* cell x holds a smaller score than cell y
ScoreSmaller(x, y) ==
    /\ x # None /\ y # None
    /\ LET a == CHOOSE v \in x : TRUE
           b == CHOOSE v \in y : TRUE
       IN  a[1] < b[1] \/ (a[1] = b[1] /\ a[2] < b[2])

\* the key (liquidity_score, want_count, num_for_sale) of row r is smaller
\* than that of row q
KeySmaller(r, q) ==
    \/ ScoreSmaller(r["liquidity_score"], q["liquidity_score"])
    \/ /\ r["liquidity_score"] = q["liquidity_score"]
       /\ CountSmaller(r["want_count"], q["want_count"])
    \/ /\ r["liquidity_score"] = q["liquidity_score"]
       /\ r["want_count"] = q["want_count"]
       /\ CountSmaller(r["num_for_sale"], q["num_for_sale"])

\* C15: the output has one row per input row, their Sell Order values are
\* 1..N in the order of the rows, each once, and no row has a smaller
\* (liquidity_score, want_count, num_for_sale) key than a row with a larger
\* Sell Order.
C15_RankedByScoreThenTieBreaks ==
    mpc = "done" =>
        /\ Len(out) = Len(base_rows)
        /\ \A p \in 1..Len(out) : out[p]["Sell Order"] = p
        /\ { out[p]["row"] : p \in 1..Len(out) } = 1..Len(base_rows)
        /\ \A p, q \in 1..Len(out) :
              out[p]["Sell Order"] < out[q]["Sell Order"] =>
                 ~KeySmaller(out[p], out[q])

\* two blocked items tie on the sentinel score and the one with the larger
\* want_count is ranked first although it came later in the input
W_C15_TieBrokenByWant ==
    /\ mpc = "done" /\ base_rows = << 1, 2 >>
    /\ OutBlocked(out[1]) /\ OutBlocked(out[2])
    /\ out[1]["row"] = 2
    /\ out[1]["want_count"] = Some(5) /\ out[2]["want_count"] = Some(0)

\* C16: once a release-details lookup has been answered with a 404 it
\* returns no fragment: the call does not return, the run fails, and the
\* cache root holds no new release_details fragment.
C16_DetailsNotFoundIsTerminal ==
    (calls > 0 /\ endpoint = "details" /\ saw404) =>
        /\ gpc # "returned"
        /\ mpc \in {"details_wait", "failed"}
        /\ cache = rootAt

\* the position in base_rows at which an id first occurs
FirstRowOf(id) == CHOOSE k \in 1..Len(base_rows) :
                     base_rows[k] = id /\ \A j \in 1..(k - 1) : base_rows[j] # id

\* the enrichment calls of the run that went to the network
FetchesOf(id, field) ==
    { p \in 1..Len(enrichLog) : enrichLog[p].id = id /\ enrichLog[p].field = field
                                 /\ enrichLog[p].fetch }

\* C18: the enrichment calls of a run are for identifiers of the input, no
\* two of them for the same identifier and field, in the order in which the
\* identifiers first occur in the input, the marketplace-stats call of an
\* identifier directly before its release-details call; every get_json
\* call of the run is the one fetch of such a call; and when the loop has
\* ended every identifier of the input has had both calls.
C18_EachDistinctIdOnceInOrder ==
    /\ \A p \in 1..Len(enrichLog) :
          /\ enrichLog[p].id # 0
          /\ \E k \in 1..Len(base_rows) : base_rows[k] = enrichLog[p].id
          /\ enrichLog[p].field = "release_details" =>
                /\ p > 1
                /\ enrichLog[p - 1].id = enrichLog[p].id
                /\ enrichLog[p - 1].field = "marketplace_stats"
    /\ \A p, q \in 1..Len(enrichLog) :
          /\ (p # q /\ enrichLog[p].id = enrichLog[q].id) =>
                enrichLog[p].field # enrichLog[q].field
          /\ (p < q /\ enrichLog[p].id # enrichLog[q].id) =>
                FirstRowOf(enrichLog[p].id) < FirstRowOf(enrichLog[q].id)
    /\ \A id \in Ids, f \in Fields : Cardinality(FetchesOf(id, f)) <= 1
    /\ calls = Cardinality({ p \in 1..Len(enrichLog) : enrichLog[p].fetch })
    /\ mpc \in AfterLoopPcs =>
          \A k \in 1..Len(base_rows) :
             base_rows[k] # 0 =>
                \A f \in Fields :
                   \E p \in 1..Len(enrichLog) :
                      enrichLog[p].id = base_rows[k] /\ enrichLog[p].field = f

\* the input << 2, 0, 1, 2 >>: four enrichment calls, for 2 and then for 1,
\* each fetched once, nothing for the row without an id
W_C18_RepeatedIdFetchedOnce ==
    /\ mpc = "done" /\ base_rows = << 2, 0, 1, 2 >>
    /\ Len(enrichLog) = 4 /\ calls = 4
    /\ enrichLog[1].id = 2 /\ enrichLog[3].id = 1
    /\ \A p \in 1..4 : enrichLog[p].fetch

\* ========================================================================
\* Properties of the enrichment over runs (checked under SpecPipe)
\* ========================================================================
\* the fragment of a field in the entry of the identifier being enriched
FragmentNow(field) == CacheGetRelease(cache, release_ids[i])[field]

\* the miss stored for the identifier being enriched came from a 404, in an
\* earlier run, and the current call began at an age below a positive ttl
Earlier404WithinTTL ==
    /\ MissOf("marketplace_stats").status = 404
    /\ EarlierMissWithinTTL("marketplace_stats", marketplace_ttl)

\* C17: a marketplace-stats call ends at its first 404, returning None;
\* the enrichment then returns the sentinel with hit = false and stores it
\* stamped with the current time; a later lookup of the identifier within
\* the TTL is a hit that returns the sentinel and fetches nothing.
C17_StatsNotFoundIsEmptyResult ==
    /\ (mpc = "stats_wait" /\ saw404) =>
          (gpc = "returned" /\ result = None /\ last_status = 404)
    /\ (mpc = "details" /\ endpoint = "stats" /\ saw404 /\ calls > callsAt) =>
          /\ ~hit_s
          /\ stats = SentinelStats
          /\ ~no_cache => FragmentNow("marketplace_stats") = Fragment(SentinelStats, now)
    /\ mpc = "stats_wait" => ~Earlier404WithinTTL
    /\ (mpc = "details" /\ Earlier404WithinTTL) =>
          /\ hit_s
          /\ stats = SentinelStats
          /\ calls = callsAt

\* the second run hits the sentinel the first run stored after a 404, for
\* an identifier the upstream now has data for
W_C17_SentinelHitAfter404 ==
    /\ pass = 2 /\ mpc = "details" /\ hit_s /\ calls = callsAt
    /\ MissOf("marketplace_stats").status = 404
    /\ MissOf("marketplace_stats").pass = 1
    /\ stats = SentinelStats
    /\ NormalizeStats(Some(upstream.served["stats"])) # SentinelStats

\* the root differs from the root the call found in fragment f of the
\* entry of the identifier being enriched, and in nothing else
OnlyFragmentReplaced(f) ==
    LET key == Str(release_ids[i])
        before == Get(rootAt["releases"], key, EmptyDict)
        after == cache["releases"][key]
    IN  /\ DOMAIN cache = DOMAIN rootAt
        /\ \A k \in DOMAIN cache \ {"releases"} : cache[k] = rootAt[k]
        /\ DOMAIN cache["releases"] = DOMAIN rootAt["releases"] \cup {key}
        /\ \A k \in DOMAIN cache["releases"] \ {key} :
              cache["releases"][k] = rootAt["releases"][k]
        /\ DOMAIN after = DOMAIN before \cup {f}
        /\ \A g \in DOMAIN after \ {f} : after[g] = before[g]
        /\ DOMAIN after[f] = {"fetched_at", "data"}
        /\ after[f]["fetched_at"] = UtcNowIso(now)
        /\ after[f]["data"] = IF f = "marketplace_stats" THEN stats ELSE rel

\* C19: an enrichment miss replaces, in the root, the fragment of its field
\* for its identifier by one fragment with fetched_at and data, and nothing
\* else; a hit leaves the root as it was; so does an enrichment that fails.
C19_MissReplacesOneFragment ==
    ~no_cache =>
        /\ (mpc = "details" /\ ~hit_s) => OnlyFragmentReplaced("marketplace_stats")
        /\ (mpc = "merge" /\ ~hit_r) => OnlyFragmentReplaced("release_details")
        /\ (mpc = "details" /\ hit_s) => cache = rootAt
        /\ (mpc = "merge" /\ hit_r) => cache = rootAt
        /\ mpc \in {"stats_wait", "details_wait"} => cache = rootAt
        /\ error \in {"fetch", "cache"} => cache = rootAt

\* a miss for release_details of an identifier whose marketplace_stats
\* fragment was a hit: the entry holds the old stats fragment and the new
\* details fragment, next to the entry of another identifier
W_C19_DetailsMissKeepsStats ==
    /\ ~no_cache /\ mpc = "merge" /\ hit_s /\ ~hit_r
    /\ DOMAIN cache["releases"] = {"1", "2"}
    /\ FragmentNow("marketplace_stats") =
          rootAt["releases"][Str(release_ids[i])]["marketplace_stats"]
    /\ FragmentNow("release_details") # 
          rootAt["releases"][Str(release_ids[i])]["release_details"]

\* the entry or the fragment the call found is malformed: an entry that is
\* no mapping, a fragment that is no mapping, a fresh fragment without data
FoundMalformed(f, ttl) ==
    \/ ~IsDict(entryAt)
    \/ ~IsDict(FoundFragment(f))
    \/ /\ "data" \notin DOMAIN FoundFragment(f)
       /\ IsFresh(entryAt, f, ttl, callAt)

\* C20: a run does not fail because of what the cache file holds, and an
\* enrichment call that finds a malformed entry or fragment is no hit: it
\* goes to the network.
C20_MalformedCacheRefetched ==
    /\ error # "cache"
    /\ (~no_cache /\ mpc = "details" /\ FoundMalformed("marketplace_stats", marketplace_ttl)) =>
          (~hit_s /\ calls = callsAt + 1)
    /\ (~no_cache /\ mpc = "merge" /\ FoundMalformed("release_details", release_details_ttl)) =>
          (~hit_r /\ calls = callsAt + 1)

====
